---- MODULE Spec2Model ----
(***************************************************************************)
(* A model of FrontendAutoTester (src/frontend_tester.py): the harness     *)
(* that compiles each test case to IR, links it with the runtime library,  *)
(* interprets the linked bitcode, compares the captured output with the    *)
(* expected answer and writes one verdict line per case to result.log.     *)
(*                                                                         *)
(* File contents are sequences of one-character strings (bytes).  The      *)
(* compiler, the linker and the interpreter are opaque subprocesses: what  *)
(* they write and what they return is chosen nondeterministically; which   *)
(* of the executables can be launched at all is fixed from the start.      *)
(* The optional mirror of each log line on the terminal (print) changes    *)
(* nothing the harness reads back and is left out.                         *)
(***************************************************************************)
EXTENDS Integers, Sequences, FiniteSets, TLC

(***************************************************************************)
(* Bounds of the model.                                                    *)
(***************************************************************************)
\* The longest batch of test cases handed to the constructor.
MaxCases == 2
\* How many times run() is called on one harness instance.
MaxRuns == 2
\* How many times the constructor is called in one process.
MaxInst == 2
\* The clock runs over the years 0..MaxYear and, in each, the seconds 0..MaxSec.
MaxYear == 1
MaxSec == 1

(***************************************************************************)
(* Python values.                                                          *)
(***************************************************************************)
None == "None"

\* The three verdict labels of run(), in the source's spelling.
CompilationError == "Compilation Error"
Accepted == "Accecpted"
WrongAnswer == "Wrong Answer"

(***************************************************************************)
(* The environment: test cases (caseloader.TestCase, consumed read-only),  *)
(* the expected-answer files on disk, and what the subprocesses may do.    *)
(***************************************************************************)
\* The expected-answer files that exist, with their contents.
StdFiles ==
    ("a.ans" :> <<"h", "i", "\n", "0", "\n">>) @@ ("b.ans" :> <<"h", "i">>)

\* The test cases a batch is drawn from.  The second has an input file; the
\* third derives the same artifact names as the first and its answer file
\* does not exist.
Pool ==
    { [sy_path |-> <<"a">>, ll_name |-> "a.ll", bc_name |-> "a.bc",
       gen_out_name |-> "a.out", in_path |-> None, std_out_path |-> "a.ans"],
      [sy_path |-> <<"b", "b">>, ll_name |-> "b.ll", bc_name |-> "b.bc",
       gen_out_name |-> "b.out", in_path |-> "b.in", std_out_path |-> "b.ans"],
      [sy_path |-> <<"d", "/", "a">>, ll_name |-> "a.ll", bc_name |-> "a.bc",
       gen_out_name |-> "a.out", in_path |-> None, std_out_path |-> "d.ans"] }

\* The batches the constructor may be given, the empty one included: lists
\* of test cases with different source paths.
Batches ==
    { b \in UNION { [1..n -> Pool] : n \in 0..MaxCases } :
        \A i, j \in DOMAIN b : i # j => b[i].sy_path # b[j].sy_path }

\* What an interpreted program may do: what it prints and the return code
\* lli ends with (negative: killed by a signal).
Programs ==
    { [stdout |-> <<"h", "i">>, returncode |-> 0],
      [stdout |-> <<"h", "i">>, returncode |-> 1],
      [stdout |-> <<>>, returncode |-> 1],
      [stdout |-> <<>>, returncode |-> -11] }

\* The return codes of the compiler and of the linker.
ToolExitCodes == { 0, 1 }

\* The moments the clock can show.
Times == [year : 0..MaxYear, sec : 0..MaxSec]

NotEarlier(t, u) == u.year > t.year \/ (u.year = t.year /\ u.sec >= t.sec)

\* The executables the stages launch.
Tools == {"java", "llvm-link", "lli"}

VARIABLES
    missing,         \* the executables that cannot be launched on this machine
    now,             \* the clock at the latest constructor call
    disk,            \* the directories that exist under gen_dir
    made,            \* one record per constructor call, in call order
    testcases,       \* self.testcases
    root_dir,        \* self.root_dir (its name under gen_dir), or NoHarness
    max_path_width,  \* self.max_path_width
    ir_dir,          \* the artifact files present in self.ir_dir
    out_dir,         \* the capture files in self.out_dir: name -> contents
    res_file,        \* the lines of result.log
    runs,            \* run() calls made on this harness
    pc,              \* where run() stands
    idx,             \* the index of the loop's test case
    echo_ret,        \* run()'s argument
    bc_path,         \* gen_ir's result for the current case
    status,          \* the verdict of the current case
    ret,             \* the return code of the latest subprocess of this case
    io,              \* the capture file before run_ir and what the interpreter printed
    events           \* the stages this run() has gone through, in order

vars == <<missing, now, disk, made, testcases, root_dir, max_path_width, ir_dir, out_dir,
          res_file, runs, pc, idx, echo_ret, bc_path, status, ret, io, events>>

ctorVars == <<missing, now, disk, made>>
selfVars == <<testcases, root_dir, max_path_width>>

(***************************************************************************)
(* Pure helpers.                                                           *)
(***************************************************************************)
\* 'testgen-' + datetime.now().strftime("%m%d-%H%M%S"): the second within
\* the year; the year itself is not part of the name.
Stamp(t) == <<"testgen-", t.sec>>

\* No harness has been constructed.
NoHarness == <<>>

\* The directories the constructor makes: root_dir, ir_dir, out_dir.
RunDirs(name) ==
    { [root |-> name, sub |-> ""], [root |-> name, sub |-> "ir"],
      [root |-> name, sub |-> "out"] }

\* max([len(str(tc.sy_path)) for tc in testcases]), of a non-empty batch.
MaxPathWidth(tcs) ==
    CHOOSE w \in { Len(tcs[i].sy_path) : i \in DOMAIN tcs } :
        \A i \in DOMAIN tcs : Len(tcs[i].sy_path) <= w

\* str.rjust(width, ' '): the padding comes first.
rjust(s, width) ==
    IF Len(s) >= width THEN s ELSE [k \in 1..(width - Len(s)) |-> " "] \o s

\* str.ljust(width, ' ')
ljust(s, width) ==
    IF Len(s) >= width THEN s ELSE s \o [k \in 1..(width - Len(s)) |-> " "]

DigitChar(d) == <<"0", "1", "2", "3", "4", "5", "6", "7", "8", "9">>[d + 1]

RECURSIVE Digits(_)
Digits(n) ==
    IF n < 10 THEN <<DigitChar(n)>>
    ELSE Digits(n \div 10) \o <<DigitChar(n % 10)>>

\* f'{p.returncode}'
Decimal(n) == IF n < 0 THEN <<"-">> \o Digits(-n) ELSE Digits(n)

\* The line run() writes for one case.
LogLine(testcase, width, st) ==
    ljust(testcase.sy_path, width) \o <<" ", "\t", st, "\n">>

\* A run_ir that always echoes the separator line.
RunIrCaptureAlwaysSep(before, stdout, returncode, echo) ==
    LET written == before \o stdout
    IN  IF echo THEN written \o <<"\n">> \o Decimal(returncode) \o <<"\n">>
        ELSE written

\* A run_ir that never echoes the separator line.
RunIrCaptureNoSep(before, stdout, returncode, echo) ==
    LET written == before \o stdout
    IN  IF echo THEN written \o Decimal(returncode) \o <<"\n">>
        ELSE written

\* A run_ir that echoes the return code whatever echo_ret says.
RunIrCaptureEchoAlways(before, stdout, returncode, echo) ==
    LET written == before \o stdout
        sep == IF Len(written) > 0 THEN <<"\n">> ELSE <<>>
    IN  written \o sep \o Decimal(returncode) \o <<"\n">>

\* The capture file after run_ir: opened for append, the interpreter writes
\* to it, then the separator and the return code are echoed into it.
RunIrCapture(before, stdout, returncode, echo) ==
    LET written == before \o stdout
        sep == IF Len(written) > 0 THEN <<"\n">> ELSE <<>>
    IN  IF echo THEN written \o sep \o Decimal(returncode) \o <<"\n">>
        ELSE written

\* A byte comparison that reports a mismatch when it reaches the end of
\* the files.
DoCmpEofMismatch(b1, b2, k) == FALSE

\* The byte comparison behind filecmp.cmp(shallow=False): the two files,
\* of equal size, are read side by side from byte k on.
RECURSIVE DoCmp(_, _, _)
DoCmp(b1, b2, k) ==
    IF k > Len(b1) THEN TRUE
    ELSE IF b1[k] # b2[k] THEN FALSE
    ELSE DoCmp(b1, b2, k + 1)

\* A comparison of the files' sizes alone.
matchShallow(b1, b2) == Len(b1) = Len(b2)

\* match(file1, file2): filecmp.cmp(file1, file2, shallow=False) on two
\* existing regular files with contents b1 and b2.
match(b1, b2) ==
    IF Len(b1) # Len(b2) THEN FALSE ELSE DoCmp(b1, b2, 1)

\* A compile stage that never tests for its artifact.
LlExistsUnchecked(dir, ll_path, returncode) == TRUE

\* A compile stage that trusts the compiler's return code.
LlExistsByExit(dir, ll_path, returncode) == returncode = 0

\* os.path.exists(ll_path) after the compiler has returned; the return
\* code of the compiler is not looked at.
LlExists(dir, ll_path, returncode) == ll_path \in dir

\* A link stage that trusts the linker's return code.
BcExistsByExit(dir, bc_path_, returncode) == returncode = 0

\* os.path.exists(bc_path) after llvm-link has returned; the return code
\* of the linker is not looked at.
BcExists(dir, bc_path_, returncode) == bc_path_ \in dir

\* An execute stage that raises on a non-zero return code (check=True).
RunIrReturnsChecked(returncode) == returncode = 0

\* subprocess.run is called without check=True: run_ir returns normally
\* whatever p.returncode is.
RunIrReturns(returncode) == TRUE

\* No subprocess has returned yet in this iteration of run()'s loop.
NoRet == [of |-> "none", returncode |-> 0]

\* run_ir has not been entered in this iteration of run()'s loop.
NoIo == [ran |-> FALSE, stdin |-> None, before |-> <<>>, stdout |-> <<>>]

Event(stage, case, result) == [stage |-> stage, case |-> case, result |-> result]

\* No call is in progress.  An exception that leaves __init__ or run() is
\* caught nowhere in the repository: after it (pc = "raised") nothing runs.
Idle == pc \in {"idle", "done"}

(***************************************************************************)
(* __init__                                                                *)
(***************************************************************************)
\* The state of a harness that __init__ has just built.
Fresh(batch, name) ==
    /\ testcases' = batch
    /\ root_dir' = name
    /\ max_path_width' = MaxPathWidth(batch)
    /\ ir_dir' = {}
    /\ out_dir' = <<>>
    /\ res_file' = <<>>
    /\ runs' = 0
    /\ pc' = "idle"
    /\ idx' = 0
    /\ echo_ret' = TRUE
    /\ bc_path' = None
    /\ status' = None
    /\ ret' = NoRet
    /\ io' = NoIo
    /\ events' = <<>>

\* os.makedirs with exist_ok=True: an existing root is taken over.
RootExistsOk(dsk, name) == FALSE

\* os.makedirs(self.root_dir) finds the directory already there.
RootExists(dsk, name) == [root |-> name, sub |-> ""] \in dsk

\* The directories made first, max() evaluated afterwards.
MadeBeforeMaxAll(name) == RunDirs(name)

\* The directories made before max() is evaluated over the batch: none, the
\* os.makedirs calls come after it.
MadeBeforeMax(name) == {}

\* One call of the constructor, at clock t.  An empty batch makes max()
\* raise before any directory is made; an existing root makes os.makedirs
\* raise.  A constructor that raises builds no harness.
Construct(batch, t) ==
    /\ Idle
    /\ Len(made) < MaxInst
    /\ NotEarlier(now, t)
    /\ now' = t
    /\ UNCHANGED missing
    /\ LET name == Stamp(t)
           call(result) == [name |-> name, at |-> t, result |-> result]
       IN  IF batch = <<>>
           THEN /\ made' = Append(made, call("ValueError"))
                /\ pc' = "raised"
                /\ disk' = disk \cup MadeBeforeMax(name)
                /\ UNCHANGED <<testcases, root_dir, max_path_width, ir_dir,
                               out_dir, res_file, runs, idx, echo_ret,
                               bc_path, status, ret, io, events>>
           ELSE IF RootExists(disk, name)
           THEN /\ made' = Append(made, call("FileExistsError"))
                /\ pc' = "raised"
                /\ UNCHANGED <<disk, testcases, root_dir, max_path_width, ir_dir,
                               out_dir, res_file, runs, idx, echo_ret,
                               bc_path, status, ret, io, events>>
           ELSE /\ made' = Append(made, call("ok"))
                /\ disk' = disk \cup RunDirs(name)
                /\ Fresh(batch, name)

(***************************************************************************)
(* run                                                                     *)
(***************************************************************************)
\* A run() that opens result.log for append.
RunStartAppend(e) ==
    /\ Idle
    /\ root_dir # NoHarness
    /\ runs < MaxRuns
    /\ runs' = runs + 1
    /\ echo_ret' = e
    /\ idx' = 1
    /\ pc' = "compile"
    /\ bc_path' = None
    /\ status' = None
    /\ ret' = NoRet
    /\ io' = NoIo
    /\ events' = <<>>
    /\ UNCHANGED <<ctorVars, selfVars, ir_dir, out_dir, res_file>>

\* run(echo_ret) is entered: result.log is opened 'w+' (truncated).
RunStart(e) ==
    /\ Idle
    /\ root_dir # NoHarness
    /\ runs < MaxRuns
    /\ runs' = runs + 1
    /\ res_file' = <<>>
    /\ echo_ret' = e
    /\ idx' = 1
    /\ pc' = "compile"
    /\ bc_path' = None
    /\ status' = None
    /\ ret' = NoRet
    /\ io' = NoIo
    /\ events' = <<>>
    /\ UNCHANGED <<ctorVars, selfVars, ir_dir, out_dir>>

\* One capture path, worked out before the loop, for every case.
OutPathOfFirst(tcs, i) == tcs[1].gen_out_name

\* out_path of the i-th case, worked out inside the loop body.
OutPath(tcs, i) == tcs[i].gen_out_name

\* A compile stage that catches the launch error of the compiler and goes
\* on as if no .ll file had been written.
CompileCaught ==
    /\ pc = "compile"
    /\ LET testcase == testcases[idx]
       IN  \E writes \in BOOLEAN, code \in ToolExitCodes :
                LET dir == IF writes /\ "java" \notin missing
                           THEN ir_dir \cup {testcase.ll_name}
                           ELSE ir_dir
                IN  /\ ir_dir' = dir
                    /\ ret' = [of |-> "compile", returncode |-> code]
                    /\ events' = Append(events, Event("compile", idx,
                                    IF testcase.ll_name \in dir THEN "present"
                                    ELSE "absent"))
                    /\ IF LlExists(dir, testcase.ll_name, code)
                       THEN /\ pc' = "link"
                            /\ UNCHANGED <<bc_path, status>>
                       ELSE /\ pc' = "log"
                            /\ bc_path' = None
                            /\ status' = CompilationError
    /\ UNCHANGED <<ctorVars, selfVars, out_dir, res_file, runs, idx, echo_ret, io>>

\* gen_ir, first half: the compiler subprocess, then the test that the .ll
\* file exists.
Compile ==
    /\ pc = "compile"
    /\ LET testcase == testcases[idx]
       IN  IF "java" \in missing
           THEN \* subprocess.run raises: the executable cannot be launched
                /\ pc' = "raised"
                /\ events' = Append(events, Event("compile", idx, "raised"))
                /\ UNCHANGED <<ir_dir, bc_path, status, ret>>
           ELSE \E writes \in BOOLEAN, code \in ToolExitCodes :
                LET dir == IF writes THEN ir_dir \cup {testcase.ll_name}
                           ELSE ir_dir
                IN  /\ ir_dir' = dir
                    /\ ret' = [of |-> "compile", returncode |-> code]
                    /\ events' = Append(events, Event("compile", idx,
                                    IF testcase.ll_name \in dir THEN "present"
                                    ELSE "absent"))
                    /\ IF LlExists(dir, testcase.ll_name, code)
                       THEN /\ pc' = "link"
                            /\ UNCHANGED <<bc_path, status>>
                       ELSE /\ pc' = "log"
                            /\ bc_path' = None
                            /\ status' = CompilationError
    /\ UNCHANGED <<ctorVars, selfVars, out_dir, res_file, runs, idx, echo_ret, io>>

\* gen_ir, second half: llvm-link, then the test that the .bc file exists.
Link ==
    /\ pc = "link"
    /\ LET testcase == testcases[idx]
       IN  IF "llvm-link" \in missing
           THEN /\ pc' = "raised"
                /\ events' = Append(events, Event("link", idx, "raised"))
                /\ UNCHANGED <<ir_dir, bc_path, status, ret>>
           ELSE \E writes \in BOOLEAN, code \in ToolExitCodes :
                LET dir == IF writes THEN ir_dir \cup {testcase.bc_name}
                           ELSE ir_dir
                IN  /\ ir_dir' = dir
                    /\ ret' = [of |-> "link", returncode |-> code]
                    /\ events' = Append(events, Event("link", idx,
                                    IF testcase.bc_name \in dir THEN "present"
                                    ELSE "absent"))
                    /\ IF BcExists(dir, testcase.bc_name, code)
                       THEN /\ pc' = "execute"
                            /\ bc_path' = testcase.bc_name
                            /\ UNCHANGED status
                       ELSE /\ pc' = "log"
                            /\ bc_path' = None
                            /\ status' = CompilationError
    /\ UNCHANGED <<ctorVars, selfVars, out_dir, res_file, runs, idx, echo_ret, io>>

\* run_ir: the capture file is opened 'a+' (made if absent, never
\* truncated), lli runs with it as stdout and with the case's input file as
\* stdin when there is one, and the return code is echoed when asked for.
Execute ==
    /\ pc = "execute"
    /\ LET testcase == testcases[idx]
           out_path == OutPath(testcases, idx)
           before == IF out_path \in DOMAIN out_dir THEN out_dir[out_path]
                     ELSE <<>>
       IN  IF "lli" \in missing
           THEN \* lli cannot be launched: the capture file is already open
                /\ pc' = "raised"
                /\ out_dir' = (out_path :> before) @@ out_dir
                /\ events' = Append(events, Event("execute", idx, "raised"))
                /\ UNCHANGED <<ret, io>>
           ELSE \E p \in Programs :
                /\ out_dir' = (out_path :> RunIrCapture(before, p.stdout,
                                    p.returncode, echo_ret)) @@ out_dir
                /\ ret' = [of |-> "execute", returncode |-> p.returncode]
                /\ io' = [ran |-> TRUE, stdin |-> testcase.in_path,
                          before |-> before, stdout |-> p.stdout]
                /\ events' = Append(events, Event("execute", idx, "returned"))
                /\ pc' = IF RunIrReturns(p.returncode) THEN "compare"
                         ELSE "raised"
    /\ UNCHANGED <<ctorVars, selfVars, ir_dir, res_file, runs, idx, echo_ret,
                   bc_path, status>>

\* A compare stage that catches the error of a missing answer file and
\* gives the verdict 'Wrong Answer'.
CompareCaught ==
    /\ pc = "compare"
    /\ LET testcase == testcases[idx]
           out_path == OutPath(testcases, idx)
           same == /\ testcase.std_out_path \in DOMAIN StdFiles
                   /\ match(out_dir[out_path], StdFiles[testcase.std_out_path])
       IN  /\ status' = IF same THEN Accepted ELSE WrongAnswer
           /\ events' = Append(events, Event("compare", idx,
                           IF same THEN "match" ELSE "differ"))
           /\ pc' = "log"
    /\ UNCHANGED <<ctorVars, selfVars, ir_dir, out_dir, res_file, runs, idx,
                   echo_ret, bc_path, ret, io>>

\* match(out_path, testcase.std_out_path) and the verdict it gives.  A
\* missing answer file makes filecmp.cmp raise.
Compare ==
    /\ pc = "compare"
    /\ LET testcase == testcases[idx]
           out_path == OutPath(testcases, idx)
       IN  IF testcase.std_out_path \notin DOMAIN StdFiles
           THEN /\ pc' = "raised"
                /\ events' = Append(events, Event("compare", idx, "raised"))
                /\ UNCHANGED status
           ELSE LET same == match(out_dir[out_path],
                                  StdFiles[testcase.std_out_path])
                IN  /\ status' = IF same THEN Accepted ELSE WrongAnswer
                    /\ events' = Append(events, Event("compare", idx,
                                    IF same THEN "match" ELSE "differ"))
                    /\ pc' = "log"
    /\ UNCHANGED <<ctorVars, selfVars, ir_dir, out_dir, res_file, runs, idx,
                   echo_ret, bc_path, ret, io>>

\* A run() that keeps the lines to itself and writes them all to result.log
\* after the last case.
WriteLogBuffered ==
    /\ pc = "log"
    /\ events' = Append(events, Event("log", idx, status))
    /\ IF idx < Len(testcases)
       THEN /\ idx' = idx + 1
            /\ pc' = "compile"
            /\ res_file' = res_file
       ELSE /\ idx' = idx
            /\ pc' = "done"
            /\ res_file' =
                 [i \in DOMAIN testcases |->
                    LET k == CHOOSE k \in DOMAIN events' :
                                 /\ events'[k].stage = "log"
                                 /\ events'[k].case = i
                    IN  LogLine(testcases[i], max_path_width, events'[k].result)]
    /\ bc_path' = None
    /\ status' = None
    /\ ret' = NoRet
    /\ io' = NoIo
    /\ UNCHANGED <<ctorVars, selfVars, ir_dir, out_dir, runs, echo_ret>>

\* A loop that takes the same case again.
NextCaseAgain(i) == i

\* The for loop over self.testcases goes on to the following case.
NextCase(i) == i + 1

\* The line of the case is written to result.log and the loop goes on to
\* the next case, or run() returns.
WriteLog ==
    /\ pc = "log"
    /\ res_file' = Append(res_file,
                          LogLine(testcases[idx], max_path_width, status))
    /\ events' = Append(events, Event("log", idx, status))
    /\ IF idx < Len(testcases)
       THEN /\ idx' = NextCase(idx)
            /\ pc' = "compile"
       ELSE /\ idx' = idx
            /\ pc' = "done"
    /\ bc_path' = None
    /\ status' = None
    /\ ret' = NoRet
    /\ io' = NoIo
    /\ UNCHANGED <<ctorVars, selfVars, ir_dir, out_dir, runs, echo_ret>>

(***************************************************************************)
(* Spec: one harness, constructed from a non-empty batch, and the run()    *)
(* calls made on it.                                                       *)
(***************************************************************************)
Init ==
    \E batch \in Batches \ {<<>>} :
        LET t == [year |-> 0, sec |-> 0]
        IN  /\ missing \in SUBSET Tools
            /\ now = t
            /\ disk = RunDirs(Stamp(t))
            /\ made = <<[name |-> Stamp(t), at |-> t, result |-> "ok"]>>
            /\ testcases = batch
            /\ root_dir = Stamp(t)
            /\ max_path_width = MaxPathWidth(batch)
            /\ ir_dir = {}
            /\ out_dir = <<>>
            /\ res_file = <<>>
            /\ runs = 0
            /\ pc = "idle"
            /\ idx = 0
            /\ echo_ret = TRUE
            /\ bc_path = None
            /\ status = None
            /\ ret = NoRet
            /\ io = NoIo
            /\ events = <<>>

Next ==
    \/ \E e \in BOOLEAN : RunStart(e)
    \/ Compile
    \/ Link
    \/ Execute
    \/ Compare
    \/ WriteLog

Spec == Init /\ [][Next]_vars

(***************************************************************************)
(* CtorSpec: the constructor calls of one process, from an empty gen_dir.  *)
(***************************************************************************)
CtorInit ==
    /\ missing \in SUBSET Tools
    /\ now = [year |-> 0, sec |-> 0]
    /\ disk = {}
    /\ made = <<>>
    /\ testcases = <<>>
    /\ root_dir = NoHarness
    /\ max_path_width = 0
    /\ ir_dir = {}
    /\ out_dir = <<>>
    /\ res_file = <<>>
    /\ runs = 0
    /\ pc = "idle"
    /\ idx = 0
    /\ echo_ret = TRUE
    /\ bc_path = None
    /\ status = None
    /\ ret = NoRet
    /\ io = NoIo
    /\ events = <<>>

CtorNext == \E batch \in Batches, t \in Times : Construct(batch, t)

CtorSpec == CtorInit /\ [][CtorNext]_vars

(***************************************************************************)
(* What the claims speak of.                                               *)
(***************************************************************************)
\* The stage ran for case i in this run(), with this result.
Outcome(stage, i, result) ==
    \E k \in DOMAIN events :
        events[k].case = i /\ events[k].stage = stage /\ events[k].result = result

\* The stage was entered for case i in this run().
Happened(stage, i) ==
    \E k \in DOMAIN events : events[k].case = i /\ events[k].stage = stage

\* The verdict label of a line of result.log.
StatusOf(line) == line[Len(line) - 1]

\* Case i has the verdict st: it is about to be written, or it is line i.
Verdict(i, st) ==
    \/ pc = "log" /\ idx = i /\ status = st
    \/ i \in DOMAIN res_file /\ StatusOf(res_file[i]) = st

\* The capture file of the current case.
Capture == out_dir[testcases[idx].gen_out_name]

\* The expected-answer file of the current case exists.
HasAnswer == idx \in DOMAIN testcases /\ testcases[idx].std_out_path \in DOMAIN StdFiles

Answer == StdFiles[testcases[idx].std_out_path]

\* The compare stage has given the current case its verdict.
Compared == pc = "log" /\ io.ran

\* No two cases of the batch derive the same artifact or capture name.
DistinctNames ==
    \A i, j \in DOMAIN testcases :
        i # j => /\ testcases[i].ll_name # testcases[j].ll_name
                 /\ testcases[i].bc_name # testcases[j].bc_name
                 /\ testcases[i].gen_out_name # testcases[j].gen_out_name

(***************************************************************************)
(* C1.  A case whose compile stage leaves no IR artifact at its target     *)
(* path gets the verdict 'Compilation Error', and neither the link stage   *)
(* nor run_ir nor match is entered for it.                                 *)
(***************************************************************************)
C1_NoIrMeansCompilationError ==
    \A i \in DOMAIN testcases :
        Outcome("compile", i, "absent") =>
            /\ Verdict(i, CompilationError)
            /\ ~Happened("link", i)
            /\ ~Happened("execute", i)
            /\ ~Happened("compare", i)

\* The compiler left no .ll file for the first case; its line is in
\* result.log and the loop has gone on to the second case.
C1_Witness ==
    /\ pc = "compile" /\ idx = 2
    /\ Outcome("compile", 1, "absent")
    /\ StatusOf(res_file[1]) = CompilationError

(***************************************************************************)
(* C2, as stated: when compile and link succeed and the interpreter's      *)
(* standard output is identical to the expected-answer file, run() with    *)
(* its default arguments (echo_ret=True) gives the verdict Accepted.       *)
(***************************************************************************)
C2_OutputEqualAnswerAccepted ==
    (Compared /\ echo_ret /\ HasAnswer /\ io.stdout = Answer)
        => status = Accepted

(***************************************************************************)
(* C2, amended: when compile and link succeed and the capture file as      *)
(* run_ir leaves it with the default echo_ret=True (what it held before,   *)
(* the interpreter's output, a newline if that is not empty, the decimal   *)
(* return code and a newline) is identical to the expected-answer file,    *)
(* run() gives the verdict Accepted.                                       *)
(***************************************************************************)
C2_EchoedCaptureEqualAnswerAccepted ==
    (Compared /\ echo_ret /\ HasAnswer
        /\ Answer = (io.before \o io.stdout)
                        \o (IF io.before \o io.stdout = <<>> THEN <<>> ELSE <<"\n">>)
                        \o Decimal(ret.returncode) \o <<"\n">>)
        => status = Accepted

\* A case is accepted under the default arguments.
C2_Witness ==
    /\ Compared /\ echo_ret /\ HasAnswer
    /\ io.stdout = <<"h", "i">> /\ ret.returncode = 0
    /\ status = Accepted

(***************************************************************************)
(* C3.  A case that reaches the compare stage is Accepted if and only if   *)
(* its capture file and its expected-answer file are byte-identical, and   *)
(* is 'Wrong Answer' as soon as they differ in one byte.                   *)
(***************************************************************************)
C3_AcceptedIffIdentical ==
    (Compared /\ HasAnswer) =>
        /\ status = Accepted <=> Capture = Answer
        /\ Capture # Answer => status = WrongAnswer

\* Two files of the same size that differ in one byte.
C3_Witness ==
    /\ Compared /\ HasAnswer
    /\ Len(Capture) = Len(Answer)
    /\ Cardinality({k \in DOMAIN Answer : Capture[k] # Answer[k]}) = 1
    /\ status = WrongAnswer

C5_OneLinePerCaseInOrder ==
    pc = "done" =>
        /\ Len(res_file) = Len(testcases)
        /\ \A i \in DOMAIN testcases :
              /\ SubSeq(res_file[i], 1, Len(testcases[i].sy_path))
                    = testcases[i].sy_path
              /\ Outcome("log", i, StatusOf(res_file[i]))
              /\ \A k \in DOMAIN events :
                    events[k].stage = "log" /\ events[k].case = i
                        => \A j \in 1..(k - 1) : events[j].case <= i

\* The second run() on a harness has completed with two different verdicts.
C5_Witness ==
    /\ pc = "done" /\ runs = 2 /\ Len(testcases) = 2
    /\ testcases[1].sy_path # testcases[2].sy_path
    /\ StatusOf(res_file[1]) = CompilationError
    /\ StatusOf(res_file[2]) = Accepted

(***************************************************************************)
(* C6, as stated: two harnesses constructed in the same process and in     *)
(* the same clock second, with the same gen_dir, get two distinct          *)
(* run-directory names.                                                    *)
(***************************************************************************)
C6_SameSecondDistinctNames ==
    \A i, j \in DOMAIN made :
        (i # j /\ made[i].at = made[j].at
            /\ made[i].result # "ValueError" /\ made[j].result # "ValueError")
            => made[i].name # made[j].name

(***************************************************************************)
(* C7.  The compile and the link stage succeed exactly when their target   *)
(* artifact exists once the subprocess has returned, whatever it returned: *)
(* the case goes on to the next stage if the artifact is there and gets    *)
(* 'Compilation Error' if it is not.                                       *)
(***************************************************************************)
C7_SuccessIsArtifactPresence ==
    \A i \in DOMAIN testcases :
        /\ Outcome("compile", i, "present")
              <=> (Happened("link", i) \/ (pc = "link" /\ idx = i))
        /\ Outcome("link", i, "present")
              <=> (Happened("execute", i) \/ (pc = "execute" /\ idx = i))
        /\ (Outcome("compile", i, "absent") \/ Outcome("link", i, "absent"))
              <=> Verdict(i, CompilationError)
        /\ (pc = "link" /\ idx = i) =>
              (ret.of = "compile" /\ testcases[i].ll_name \in ir_dir)
        /\ (pc = "execute" /\ idx = i) =>
              (ret.of = "link" /\ testcases[i].bc_name \in ir_dir)

\* The compiler returned 1 and the .ll file is there: the link stage is next.
C7_Witness ==
    /\ pc = "link" /\ ret = [of |-> "compile", returncode |-> 1]
    /\ runs = 1 /\ idx = 1

(***************************************************************************)
(* C8.  A case whose compile stage succeeds and whose link stage leaves    *)
(* no linked artifact gets 'Compilation Error', the same label as for a    *)
(* failed compile stage, and neither run_ir nor match is entered for it.   *)
(***************************************************************************)
C8_NoBitcodeMeansCompilationError ==
    \A i \in DOMAIN testcases :
        (Outcome("compile", i, "present") /\ Outcome("link", i, "absent")) =>
            /\ Verdict(i, CompilationError)
            /\ ~Happened("execute", i)
            /\ ~Happened("compare", i)

\* The linker returned 0 without writing its target; the case is logged.
C8_Witness ==
    /\ pc = "done"
    /\ \E i \in DOMAIN testcases :
          /\ Outcome("compile", i, "present")
          /\ Outcome("link", i, "absent")
          /\ StatusOf(res_file[i]) = CompilationError

(***************************************************************************)
(* C9.  The execute stage has no failure of its own: once run_ir is        *)
(* entered the capture file exists, and whatever the interpreter returns   *)
(* the case goes on to the compare stage and is Accepted or 'Wrong         *)
(* Answer'; run() is not left because of a return code.                    *)
(***************************************************************************)
C9_ExecuteNeverFails ==
    /\ \A i \in DOMAIN testcases :
          /\ Happened("execute", i)
                => testcases[i].gen_out_name \in DOMAIN out_dir
          /\ Outcome("execute", i, "returned")
                => (Happened("compare", i) \/ (pc = "compare" /\ idx = i))
          /\ (Happened("execute", i) /\ i \in DOMAIN res_file)
                => StatusOf(res_file[i]) \in {Accepted, WrongAnswer}
    /\ Compared => status \in {Accepted, WrongAnswer}
    /\ pc = "raised" =>
          /\ events[Len(events)].result = "raised"
          /\ events[Len(events)].stage = "compare"
                => testcases[idx].std_out_path \notin DOMAIN StdFiles

\* The interpreter was killed by a signal and printed nothing; the capture
\* file is empty and the case has its verdict.
C9_Witness ==
    /\ Compared /\ HasAnswer
    /\ ret.returncode = -11
    /\ Capture = <<>>
    /\ status = WrongAnswer

(***************************************************************************)
(* C10.  match(f, f), a file that exists compared with itself, is True.    *)
(***************************************************************************)
C10_MatchIsReflexive ==
    /\ \A f \in DOMAIN out_dir : match(out_dir[f], out_dir[f])
    /\ \A f \in DOMAIN StdFiles : match(StdFiles[f], StdFiles[f])

\* A capture file that has grown over two runs.
C10_Witness ==
    \E f \in DOMAIN out_dir : Len(out_dir[f]) > 5


\* The verdict labels run() writes.
Labels == {CompilationError, Accepted, WrongAnswer}

\* The stages of one case, in the order of the loop body.
StageRank(stage) ==
    CASE stage = "compile" -> 1
      [] stage = "link"    -> 2
      [] stage = "execute" -> 3
      [] stage = "compare" -> 4
      [] stage = "log"     -> 5

\* The executable each subprocess stage launches.
ToolOf(stage) ==
    CASE stage = "compile" -> "java"
      [] stage = "link"    -> "llvm-link"
      [] stage = "execute" -> "lli"

\* How many times the stage was entered for case i in this run().
Count(stage, i) ==
    Cardinality({ k \in DOMAIN events :
                    events[k].case = i /\ events[k].stage = stage })

\* run() was left at case k: result.log holds the lines of the cases
\* before k, as they were written, and nothing else; case k has no line and
\* no case after k was touched.
StoppedAt(k) ==
    /\ pc = "raised"
    /\ Len(res_file) = k - 1
    /\ \A i \in 1..(k - 1) :
          res_file[i] = LogLine(testcases[i], max_path_width,
                                StatusOf(res_file[i]))
          /\ Outcome("log", i, StatusOf(res_file[i]))
    /\ ~Happened("log", k)
    /\ \A j \in DOMAIN events : events[j].case <= k

\* The constructor calls that built a harness.
Built == { k \in DOMAIN made : made[k].result = "ok" }

(***************************************************************************)
(* C11.  If the expected-answer file of case k is missing when the compare *)
(* stage runs, run() ends with the error of the comparison instead of a    *)
(* verdict for case k: the lines of cases 1..k-1 stay in result.log, case  *)
(* k gets no line and no case after k is processed.                        *)
(***************************************************************************)
C11_MissingAnswerAbortsRun ==
    \A k \in DOMAIN testcases :
        (Happened("compare", k) /\ testcases[k].std_out_path \notin DOMAIN StdFiles)
            => Outcome("compare", k, "raised") /\ StoppedAt(k)

\* The second case has no answer file: its comparison raised, and the line
\* of the first case is what result.log holds.
C11_Witness ==
    /\ pc = "raised"
    /\ Outcome("compare", 2, "raised")
    /\ Len(res_file) = 1
    /\ Outcome("log", 1, StatusOf(res_file[1]))

(***************************************************************************)
(* C12.  Processing is strictly sequential: the stages of a case come in   *)
(* the order compile, link, execute, compare, then its line; the cases     *)
(* come in batch order; and the compile stage of case i+1 starts only when *)
(* the line of case i has been written to result.log.                      *)
(***************************************************************************)
C12_StrictlySequential ==
    /\ \A k, l \in DOMAIN events :
          k < l => \/ events[k].case < events[l].case
                   \/ /\ events[k].case = events[l].case
                      /\ StageRank(events[k].stage) < StageRank(events[l].stage)
    /\ \A l \in DOMAIN events :
          (events[l].stage = "compile" /\ events[l].case > 1)
              => /\ events[l - 1].stage = "log"
                 /\ events[l - 1].case = events[l].case - 1
                 /\ Len(res_file) >= events[l].case - 1
    /\ pc \in {"compile", "link", "execute", "compare", "log"}
          => Len(res_file) = idx - 1

\* Both cases of a batch went through all four stages and got their lines.
C12_Witness ==
    /\ pc = "done"
    /\ Len(events) = 10
    /\ Len(res_file) = 2

(***************************************************************************)
(* C13, as stated: during one run() every stage (compile, link, execute,   *)
(* compare) runs exactly once per case.                                    *)
(***************************************************************************)
C13_EveryStageExactlyOnce ==
    pc = "done" =>
        \A i \in DOMAIN testcases :
            \A stage \in {"compile", "link", "execute", "compare"} :
                Count(stage, i) = 1

(***************************************************************************)
(* C13, amended: there are no retries: during one run() no stage runs      *)
(* more than once for a case.  When run() returns, compile has run exactly *)
(* once for every case, link exactly once for the cases whose .ll file was *)
(* there and not at all for the others, execute and compare exactly once   *)
(* for the cases whose .bc file was there and not at all for the others.   *)
(***************************************************************************)
C13_NoStageTwice ==
    \A i \in DOMAIN testcases :
        /\ \A stage \in {"compile", "link", "execute", "compare", "log"} :
              Count(stage, i) <= 1
        /\ pc = "done" =>
              /\ Count("compile", i) = 1
              /\ Count("link", i) =
                    (IF Outcome("compile", i, "present") THEN 1 ELSE 0)
              /\ Count("execute", i) =
                    (IF Outcome("link", i, "present") THEN 1 ELSE 0)
              /\ Count("compare", i) = Count("execute", i)

\* run() returned; the first case stopped at its compile stage, the second
\* went through all four, each once.
C13_Witness ==
    /\ pc = "done"
    /\ Outcome("compile", 1, "absent")
    /\ Count("compile", 1) = 1
    /\ Count("link", 1) = 0
    /\ Count("compile", 2) = 1
    /\ Count("compare", 2) = 1

(***************************************************************************)
(* C14.  The constructor makes the run-directory root and its ir and out   *)
(* subdirectories before any stage runs.  If the root is already there the *)
(* constructor raises, with no retry and no directory under another name,  *)
(* and nothing is run by that instance.                                    *)
(***************************************************************************)
C14_DirectoriesMadeOrConstructorRaises ==
    /\ root_dir # NoHarness =>
          /\ RunDirs(root_dir) \subseteq disk
          /\ (made[Len(made)].result = "ok" => pc = "idle" /\ events = <<>>)
    /\ \A k \in Built :
          /\ RunDirs(made[k].name) \subseteq disk
          /\ \A j \in Built : j < k => made[j].name # made[k].name
    /\ \A k \in DOMAIN made :
          made[k].result = "FileExistsError" =>
              /\ k = Len(made)
              /\ pc = "raised"
              /\ \E j \in Built : j < k /\ made[j].name = made[k].name
              /\ disk = UNION { RunDirs(made[j].name) : j \in Built }
              /\ ~ENABLED Next
              /\ ~ENABLED CtorNext

\* A second constructor call in the second of the first found the root
\* there and raised; the directories on disk are those of the first call.
C14_Witness ==
    /\ Len(made) = 2
    /\ made[1].result = "ok"
    /\ made[2].result = "FileExistsError"
    /\ pc = "raised"
    /\ disk = RunDirs(made[1].name)

(***************************************************************************)
(* C15, as stated: with echo_ret=False the capture file holds, after       *)
(* run_ir, only the interpreter's raw standard output.                     *)
(***************************************************************************)
C15_CaptureIsRawOutput ==
    (pc = "compare" /\ io.ran /\ ~echo_ret /\ DistinctNames)
        => Capture = io.stdout

(***************************************************************************)
(* C15, amended: with echo_ret=False the capture file holds, after run_ir, *)
(* what it held before the call followed by the interpreter's raw standard *)
(* output: no separator newline and no exit code are appended.             *)
(***************************************************************************)
C15_CaptureIsAppendedRawOutput ==
    (pc = "compare" /\ io.ran /\ ~echo_ret)
        => Capture = io.before \o io.stdout

\* A second run(), with echo_ret=False, of a case whose capture file the
\* first run() left behind.
C15_Witness ==
    /\ pc = "compare" /\ io.ran /\ ~echo_ret
    /\ io.before # <<>>
    /\ io.stdout # <<>>
    /\ Capture = io.before \o io.stdout

(***************************************************************************)
(* C16.  If the executable of a stage cannot be launched, the error leaves *)
(* run(): the case gets no line in result.log, no later case is processed, *)
(* and the lines written before stay in result.log.                        *)
(***************************************************************************)
C16_LaunchFailureAbortsRun ==
    \A k \in DOMAIN testcases :
        \A stage \in {"compile", "link", "execute"} :
            /\ (Happened(stage, k) /\ ToolOf(stage) \in missing)
                  => Outcome(stage, k, "raised")
            /\ Outcome(stage, k, "raised") => StoppedAt(k)

\* lli is not installed.  The first case got its line without reaching the
\* execute stage; the second reached it and run() was left there.
C16_Witness ==
    /\ pc = "raised"
    /\ Outcome("execute", 2, "raised")
    /\ Len(res_file) = 1
    /\ StatusOf(res_file[1]) = CompilationError

(***************************************************************************)
(* C17, as stated: every line of result.log is the source path padded to   *)
(* the longest path of the batch, then a tab and the verdict label, then a *)
(* newline, with nothing else between the padded path and the tab.         *)
(***************************************************************************)
C17_LineIsPaddedPathTabLabel ==
    \A i \in DOMAIN res_file :
        \E st \in Labels :
            res_file[i] =
                ljust(testcases[i].sy_path, MaxPathWidth(testcases))
                    \o <<"\t", st, "\n">>

(***************************************************************************)
(* C17, amended: every line of result.log is the source path, left-        *)
(* aligned and padded with spaces to the longest path of the batch, then   *)
(* one space, a tab and the verdict label, then a newline, and nothing     *)
(* else.  The label is 'Compilation Error', 'Accecpted' or 'Wrong Answer'. *)
(***************************************************************************)
C17_LineIsPaddedPathSpaceTabLabel ==
    \A i \in DOMAIN res_file :
        LET line == res_file[i]
            path == testcases[i].sy_path
            w == max_path_width
        IN  /\ \A j \in DOMAIN testcases : Len(testcases[j].sy_path) <= w
            /\ \E j \in DOMAIN testcases : Len(testcases[j].sy_path) = w
            /\ Len(line) = w + 4
            /\ \A k \in 1..Len(path) : line[k] = path[k]
            /\ \A k \in (Len(path) + 1)..w : line[k] = " "
            /\ line[w + 1] = " "
            /\ line[w + 2] = "\t"
            /\ line[w + 3] \in Labels
            /\ line[w + 4] = "\n"

\* Two lines are written; the path of the first is shorter than the path
\* of the second, and is padded.
C17_Witness ==
    /\ Len(res_file) = 2
    /\ Len(testcases[1].sy_path) < max_path_width
    /\ res_file[1][max_path_width] = " "
    /\ res_file[1][max_path_width + 2] = "\t"

(***************************************************************************)
(* C18.  In the first run() of a freshly constructed harness whose cases   *)
(* derive pairwise distinct artifact names, none of a case's .ll file, .bc *)
(* file and capture file exists when the case begins.  So a file found by  *)
(* an existence test was left by the case's own stage, and the capture     *)
(* file holds the output of the case's own execution only.                 *)
(***************************************************************************)
C18_ArtifactsAbsentWhenCaseBegins ==
    (runs = 1 /\ DistinctNames /\ idx \in DOMAIN testcases) =>
        LET testcase == testcases[idx]
        IN  /\ pc = "compile" =>
                  /\ testcase.ll_name \notin ir_dir
                  /\ testcase.bc_name \notin ir_dir
                  /\ testcase.gen_out_name \notin DOMAIN out_dir
            /\ pc = "link" =>
                  /\ testcase.bc_name \notin ir_dir
                  /\ testcase.gen_out_name \notin DOMAIN out_dir
            /\ pc = "execute" => testcase.gen_out_name \notin DOMAIN out_dir
            /\ (pc = "compare" /\ io.ran) => io.before = <<>>

\* The second case of the first run() is at its compare stage; the capture
\* file of the first case is there, and the second case's own capture file
\* was empty when its execution began.
C18_Witness ==
    /\ runs = 1 /\ DistinctNames
    /\ idx = 2 /\ pc = "compare" /\ io.ran
    /\ testcases[1].gen_out_name \in DOMAIN out_dir
    /\ io.before = <<>>
    /\ io.stdout # <<>>

(***************************************************************************)
(* C19.  A constructor call with an empty list of cases raises before any  *)
(* directory is made: it leaves no run directory on disk.                  *)
(***************************************************************************)
C19_EmptyBatchLeavesNoDirectory ==
    \A k \in DOMAIN made :
        made[k].result = "ValueError" =>
            /\ k = Len(made)
            /\ pc = "raised"
            /\ root_dir = (IF k = 1 THEN NoHarness ELSE made[k - 1].name)
            /\ disk = UNION { RunDirs(made[j].name) : j \in 1..(k - 1) }
            /\ RunDirs(made[k].name) \cap disk # {} =>
                  \E j \in 1..(k - 1) : made[j].name = made[k].name

\* After one harness was built, a call with an empty list, at a later
\* second, raised; only the directories of the first call are on disk.
C19_Witness ==
    /\ Len(made) = 2
    /\ made[1].result = "ok"
    /\ made[2].result = "ValueError"
    /\ made[2].name # made[1].name
    /\ disk = RunDirs(made[1].name)

==============================================================================
